---- MODULE Spec2Model ----
(***************************************************************************)
(* kubectl-evict: one invocation of the evict command.                     *)
(*                                                                         *)
(*   NewCmdEvict.RunE  =  Complete ; RunEvict                              *)
(*   RunEvict          =  podsForObject ; NewEvictClient ; EvictPod*       *)
(*                                                                         *)
(* The cluster (object fetch, pod list, discovery, eviction endpoint) is   *)
(* the environment: every answer it can give is drawn with \E.  The run    *)
(* is cut into steps at the network calls, so that a request in flight     *)
(* and a cancellation of the caller's context are states of the model.     *)
(***************************************************************************)
EXTENDS Integers, Sequences, FiniteSets, TLC

\* ------------------------------------------------------------------ bounds
MaxPods      == 3   \* pods a list query or a PodList may hold
MaxArgs      == 2   \* positional arguments on the command line
MaxResources == 2   \* entries of a discovery APIResourceList

\* --------------------------------------------------------------- constants
EvictionSubresource == "pods/eviction"
EvictionKind        == "Eviction"
PolicyV1GroupVersion      == [Group |-> "policy", Version |-> "v1"]
PolicyV1beta1GroupVersion == [Group |-> "policy", Version |-> "v1beta1"]
EmptyGroupVersion         == [Group |-> "", Version |-> ""]
NamespaceAll == ""
DryRunAll    == "All"
DefaultGracePeriod == 0 - 1

\* ---------------------------------------------------------------- helpers
Range(s) == {s[i] : i \in 1..Len(s)}

InjectiveSeqs(S, n) ==
  UNION {{s \in [1..k -> S] : \A i, j \in 1..k : s[i] = s[j] => i = j} : k \in 0..n}

SeqsUpTo(S, n) == UNION {[1..k -> S] : k \in 0..n}

\* ---------------------------------------------------------- label selectors
\* metav1.LabelSelector (a pointer): isNil, or MatchLabels + MatchExpressions.
\* MatchLabels is a Go map, held as a sequence of <<key, value>> in key order.
NilLabelSelector == [isNil |-> TRUE, MatchLabels |-> <<>>, MatchExpressions |-> <<>>]

LabelSelectorOf(ml, me) == [isNil |-> FALSE, MatchLabels |-> ml, MatchExpressions |-> me]

Expr(k, op, vals) == [Key |-> k, Operator |-> op, Values |-> vals]

LabelSelectors ==
  { NilLabelSelector,
    LabelSelectorOf(<<>>, <<>>),
    LabelSelectorOf(<<>>, << Expr("tier", "In", <<"web", "api">>) >>),
    LabelSelectorOf(<< <<"app", "nginx">> >>, << Expr("tier", "DoesNotExist", <<>>) >>),
    LabelSelectorOf(<<>>, << Expr("tier", "Bogus", <<>>) >>),
    LabelSelectorOf(<<>>, << Expr("tier", "In", <<>>) >>) }

\* map[string]string selectors of a ReplicationController or a Service
NilMap == [isNil |-> TRUE, m |-> <<>>]
MapOf(m) == [isNil |-> FALSE, m |-> m]
SelectorMaps == { NilMap, MapOf(<<>>), MapOf(<< <<"app", "nginx">> >>) }

\* labels.Selector (an interface): nil, Nothing, or a list of requirements
\* (the empty list is Everything).
NilSelector == [isNil |-> TRUE, nothing |-> FALSE, reqs |-> <<>>]
Nothing     == [isNil |-> FALSE, nothing |-> TRUE, reqs |-> <<>>]
Everything  == [isNil |-> FALSE, nothing |-> FALSE, reqs |-> <<>>]
Requirements(rs) == [isNil |-> FALSE, nothing |-> FALSE, reqs |-> rs]

Requirement(k, op, vals) == [key |-> k, op |-> op, vals |-> vals]

\* labels.NewRequirement: the operator/values validation
ValidRequirement(e) ==
  CASE e.Operator \in {"In", "NotIn"}            -> Len(e.Values) > 0
    [] e.Operator \in {"Exists", "DoesNotExist"} -> Len(e.Values) = 0
    [] OTHER                                        -> FALSE

\* metav1.LabelSelectorAsSelector: <<selector, err>>.  The requirements come
\* out sorted by key; the selectors above name their keys in that order.
LabelSelectorAsSelector(ps) ==
  IF ps.isNil THEN << Nothing, "" >>
  ELSE IF Len(ps.MatchLabels) + Len(ps.MatchExpressions) = 0 THEN << Everything, "" >>
  ELSE IF \E i \in 1..Len(ps.MatchExpressions) : ~ValidRequirement(ps.MatchExpressions[i])
       THEN << NilSelector, "invalid requirement" >>
  ELSE << Requirements(
            [i \in 1..Len(ps.MatchLabels) |->
               Requirement(ps.MatchLabels[i][1], "=", << ps.MatchLabels[i][2] >>)]
            \o
            [i \in 1..Len(ps.MatchExpressions) |->
               Requirement(ps.MatchExpressions[i].Key,
                           ps.MatchExpressions[i].Operator,
                           ps.MatchExpressions[i].Values)]),
          "" >>

\* labels.SelectorFromSet
SelectorFromSet(ls) ==
  IF ls.isNil \/ Len(ls.m) = 0 THEN Everything
  ELSE Requirements([i \in 1..Len(ls.m) |-> Requirement(ls.m[i][1], "=", << ls.m[i][2] >>)])

RECURSIVE Join(_, _)
Join(strs, sep) ==
  IF Len(strs) = 0 THEN ""
  ELSE IF Len(strs) = 1 THEN strs[1]
  ELSE strs[1] \o sep \o Join(Tail(strs), sep)

\* labels.Requirement.String
RequirementString(r) ==
  CASE r.op = "="            -> r.key \o "=" \o r.vals[1]
    [] r.op = "In"           -> r.key \o " in (" \o Join(r.vals, ",") \o ")"
    [] r.op = "NotIn"        -> r.key \o " notin (" \o Join(r.vals, ",") \o ")"
    [] r.op = "Exists"       -> r.key
    [] r.op = "DoesNotExist" -> "!" \o r.key
    [] OTHER                 -> r.key

\* labels.Selector.String: Nothing and Everything both print as ""
SelectorString(s) ==
  IF s.nothing THEN "" ELSE Join([i \in 1..Len(s.reqs) |-> RequirementString(s.reqs[i])], ",")

\* fields.Selector: nil, or one term field=value (fields.SelectorFromSet)
NilFieldSelector == [isNil |-> TRUE, field |-> "", value |-> ""]
FieldSelectorFromSet(f, v) == [isNil |-> FALSE, field |-> f, value |-> v]
FieldSelectorString(s) == s.field \o "=" \o s.value


\* ------------------------------------------------------------------ objects
\* runtime.Object as fetched by the resource builder.  One record shape for
\* every kind; a kind reads only the fields it has.
Namespaces == {"default", "staging"}

LabelSelectorKinds == {"ReplicaSet", "StatefulSet", "DaemonSet", "Deployment", "Job"}
MapSelectorKinds   == {"ReplicationController", "Service"}
ControllerKinds    == LabelSelectorKinds \cup MapSelectorKinds \cup {"Node"}

Object(kind, ns, name, sel, m, items) ==
  [Kind |-> kind, Namespace |-> ns, Name |-> name,
   Selector |-> sel, SelectorMap |-> m, Items |-> items]

NoObject == Object("", "", "", NilLabelSelector, NilMap, <<>>)

PodName(i) == "nginx-" \o ToString(i)

Pod(ns, i) == [Namespace |-> ns, Name |-> PodName(i)]

\* what a list of pods can hold: distinct pods, in any order the server picks
PodLists(ns) ==
  {[i \in 1..Len(s) |-> Pod(ns, s[i])] : s \in InjectiveSeqs(1..MaxPods, MaxPods)}

\* the objects a TYPE/NAME (or POD) argument can resolve to in namespace ns
NamedObjects(ns) ==
  {Object("Pod", ns, "nginx-1", NilLabelSelector, NilMap, <<>>)}
  \cup {Object(k, ns, "nginx", sel, NilMap, <<>>) : k \in LabelSelectorKinds, sel \in LabelSelectors}
  \cup {Object(k, ns, "nginx", NilLabelSelector, m, <<>>) : k \in MapSelectorKinds, m \in SelectorMaps}
  \cup {Object("Node", "", "worker-1", NilLabelSelector, NilMap, <<>>)}
  \cup {Object("ConfigMap", ns, "nginx", NilLabelSelector, NilMap, <<>>)}

\* the PodList a label-selector fetch returns
SelectedObjects(ns) ==
  {Object("PodList", "", "", NilLabelSelector, NilMap, items) : items \in PodLists(ns)}

SelectorSpec(ns, l, f, e) == [namespace |-> ns, labelsel |-> l, fieldsel |-> f, err |-> e]

NoSelectorSpec == SelectorSpec("", NilSelector, NilFieldSelector, "")

SelectorSpecFromLabelSelector(t) ==
  LET r == LabelSelectorAsSelector(t.Selector) IN
  IF r[2] # "" THEN SelectorSpec("", NilSelector, NilFieldSelector, "invalid label selector")
  ELSE SelectorSpec(t.Namespace, r[1], NilFieldSelector, "")

\* mutant: a node is given the match-everything label selector as well
selectorsForObject_nodeWithLabels(t) ==
  CASE t.Kind \in LabelSelectorKinds -> SelectorSpecFromLabelSelector(t)
    [] t.Kind = "ReplicationController" ->
         SelectorSpec(t.Namespace, SelectorFromSet(t.SelectorMap), NilFieldSelector, "")
    [] t.Kind = "Service" ->
         IF t.SelectorMap.isNil \/ Len(t.SelectorMap.m) = 0
         THEN SelectorSpec("", NilSelector, NilFieldSelector, "Service is defined without a selector")
         ELSE SelectorSpec(t.Namespace, SelectorFromSet(t.SelectorMap), NilFieldSelector, "")
    [] t.Kind = "Node" ->
         SelectorSpec(NamespaceAll, Everything, FieldSelectorFromSet("spec.nodeName", t.Name), "")
    [] OTHER ->
         SelectorSpec("", NilSelector, NilFieldSelector, "selector not implemented")

\* mutant: a service without a selector is resolved like any other service
selectorsForObject_serviceUnchecked(t) ==
  CASE t.Kind \in LabelSelectorKinds -> SelectorSpecFromLabelSelector(t)
    [] t.Kind \in {"ReplicationController", "Service"} ->
         SelectorSpec(t.Namespace, SelectorFromSet(t.SelectorMap), NilFieldSelector, "")
    [] t.Kind = "Node" ->
         SelectorSpec(NamespaceAll, NilSelector, FieldSelectorFromSet("spec.nodeName", t.Name), "")
    [] OTHER ->
         SelectorSpec("", NilSelector, NilFieldSelector, "selector not implemented")


selectorsForObject(t) ==
  CASE t.Kind \in LabelSelectorKinds -> SelectorSpecFromLabelSelector(t)
    [] t.Kind = "ReplicationController" ->
         SelectorSpec(t.Namespace, SelectorFromSet(t.SelectorMap), NilFieldSelector, "")
    [] t.Kind = "Service" ->
         IF t.SelectorMap.isNil \/ Len(t.SelectorMap.m) = 0
         THEN SelectorSpec("", NilSelector, NilFieldSelector, "Service is defined without a selector")
         ELSE SelectorSpec(t.Namespace, SelectorFromSet(t.SelectorMap), NilFieldSelector, "")
    [] t.Kind = "Node" ->
         SelectorSpec(NamespaceAll, NilSelector, FieldSelectorFromSet("spec.nodeName", t.Name), "")
    [] OTHER ->
         SelectorSpec("", NilSelector, NilFieldSelector, "selector not implemented")

\* metav1.ListOptions plus the namespace of api.Pods(namespace), as built by
\* podsForObject from a SelectorSpec
ListQuery(ns, l, f) == [namespace |-> ns, LabelSelector |-> l, FieldSelector |-> f]

ListOptionsFor(s) ==
  ListQuery(s.namespace,
            IF ~s.labelsel.isNil THEN SelectorString(s.labelsel) ELSE "",
            IF ~s.fieldsel.isNil THEN FieldSelectorString(s.fieldsel) ELSE "")

\* ------------------------------------------------------------- negotiation
APIResource(n, k, g, v) == [Name |-> n, Kind |-> k, Group |-> g, Version |-> v]

ResourceNames    == {EvictionSubresource, "pods", "pods/binding"}
ResourceKinds    == {EvictionKind, "Pod"}
ResourceGroups   == {"", "policy", "apps"}
ResourceVersions == {"", "v1", "v1beta1"}

APIResources ==
  {APIResource(n, k, g, v) :
     n \in ResourceNames, k \in ResourceKinds, g \in ResourceGroups, v \in ResourceVersions}

\* the answer of ServerResourcesForGroupVersion("v1")
DiscoveryResponse(failed, rs) == [err |-> failed, APIResources |-> rs]

NoDiscovery == DiscoveryResponse(FALSE, <<>>)

\* A served resource list names each resource (a REST path) once.
DiscoveryResponses ==
  {DiscoveryResponse(TRUE, <<>>)}
  \cup {DiscoveryResponse(FALSE, rs) :
          rs \in {s \in SeqsUpTo(APIResources, MaxResources) :
                    \A i, j \in 1..Len(s) : s[i].Name = s[j].Name => i = j}}

\* mutant: the entry's kind is not looked at
Qualifies_anyKind(resource) ==
  /\ resource.Name = EvictionSubresource
  /\ Len(resource.Group) > 0
  /\ Len(resource.Version) > 0


Qualifies(resource) ==
  /\ resource.Name = EvictionSubresource
  /\ resource.Kind = EvictionKind
  /\ Len(resource.Group) > 0
  /\ Len(resource.Version) > 0

RECURSIVE FirstQualifying(_)
FirstQualifying(rs) ==
  IF Len(rs) = 0 THEN EmptyGroupVersion
  ELSE IF Qualifies(Head(rs)) THEN [Group |-> Head(rs).Group, Version |-> Head(rs).Version]
  ELSE FirstQualifying(Tail(rs))

evictGroupVersion(resp) ==
  IF resp.err THEN EmptyGroupVersion ELSE FirstQualifying(resp.APIResources)

NewEvictClient(resp) ==
  IF evictGroupVersion(resp) = PolicyV1GroupVersion THEN "ClientV1" ELSE "ClientV1beta1"

\* ---------------------------------------------------------------- eviction
\* metav1.DeleteOptions (a pointer)
NilDeleteOptions == [isNil |-> TRUE, hasGrace |-> FALSE, GracePeriodSeconds |-> 0, DryRun |-> <<>>]

\* RunEvict's opts
DeleteOptionsFor(grace, dryRun) ==
  [isNil |-> FALSE,
   hasGrace |-> grace >= 0,
   GracePeriodSeconds |-> IF grace >= 0 THEN grace ELSE 0,
   DryRun |-> IF dryRun THEN << DryRunAll >> ELSE <<>>]

\* The Eviction object each client submits, with the context it submits it
\* under.  The caller hands over its context and its delete options; the
\* clients build the Eviction from the pod's ObjectMeta alone and call Evict
\* with context.TODO().
Eviction(gv, pod, dopts, c) ==
  [apiVersion |-> gv, Name |-> pod.Name, Namespace |-> pod.Namespace,
   DeleteOptions |-> dopts, context |-> c]

ClientV1_EvictPod(ctx, pod, opts) ==
  Eviction(PolicyV1GroupVersion, pod, NilDeleteOptions, "TODO")

ClientV1beta1_EvictPod(ctx, pod, opts) ==
  Eviction(PolicyV1beta1GroupVersion, pod, NilDeleteOptions, "TODO")

EvictPod(c, ctx, pod, opts) ==
  IF c = "ClientV1" THEN ClientV1_EvictPod(ctx, pod, opts)
  ELSE ClientV1beta1_EvictPod(ctx, pod, opts)


\* -------------------------------------------------------------------- state
VARIABLES
  pc,                 \* where the run stands
  args,               \* positional arguments handed to RunE
  Selector,           \* EvictOptions.Selector (-l)
  GracePeriodSeconds, \* EvictOptions.GracePeriodSeconds (--grace-period)
  DryRun,             \* EvictOptions.DryRun (--dry-run)
  ResourceArg,        \* EvictOptions.ResourceArg
  o_Object,           \* EvictOptions.Object
  ctxCanceled,        \* the caller's context is done
  canceledInFlight,   \* history: the context was canceled while an eviction call was in flight
  fetches,            \* resource-builder fetches made by Complete
  selectorSpec,       \* what selectorsForObject returned to podsForObject
  listQueries,        \* pod list queries sent
  pods,               \* RunEvict's pods
  opts,               \* RunEvict's opts
  discovery,          \* what the cluster's discovery endpoint answers
  discoveries,        \* discovery queries made
  client,             \* RunEvict's eviction (the Client chosen), "" before
  i,                  \* position of the range loop over pods
  requests,           \* eviction requests sent, each with the state of ctx when sent
  out,                \* lines written to o.Out
  err                 \* the error RunE returned

vars == << pc, args, Selector, GracePeriodSeconds, DryRun, ResourceArg, o_Object,
           ctxCanceled, canceledInFlight, fetches, selectorSpec, listQueries, pods,
           opts, discovery, discoveries, client, i, requests, out, err >>

Error(type, subject) == [type |-> type, subject |-> subject]
NoError == Error("", "")

ArgValues      == {"", "nginx"}
SelectorValues == {"", "app=nginx"}
GracePeriods   == {DefaultGracePeriod, 0, 30}

\* discovery documents met in a run: failed, stable, deprecated
RunDiscoveryResponses ==
  { DiscoveryResponse(TRUE, <<>>),
    DiscoveryResponse(FALSE, << APIResource(EvictionSubresource, EvictionKind, "policy", "v1") >>),
    DiscoveryResponse(FALSE, << APIResource("pods", "Pod", "", ""),
                                APIResource(EvictionSubresource, EvictionKind, "policy", "v1beta1") >>) }

InitRun(responses) ==
  /\ pc = "Complete"
  /\ args \in SeqsUpTo(ArgValues, MaxArgs)
  /\ Selector \in SelectorValues
  /\ GracePeriodSeconds \in GracePeriods
  /\ DryRun \in BOOLEAN
  /\ ResourceArg = ""
  /\ o_Object = NoObject
  /\ ctxCanceled = FALSE
  /\ canceledInFlight = FALSE
  /\ fetches = 0
  /\ selectorSpec = NoSelectorSpec
  /\ listQueries = <<>>
  /\ pods = <<>>
  /\ opts = NilDeleteOptions
  /\ discovery \in responses
  /\ discoveries = 0
  /\ client = ""
  /\ i = 0
  /\ requests = <<>>
  /\ out = <<>>
  /\ err = NoError

Init == InitRun(RunDiscoveryResponses)

\* RunE returns e
Return(e) == pc' = "done" /\ err' = e

\* mutant: a positional argument together with a selector is let through
UsageError_bothAllowed(a, sel) ==
  CASE Len(a) = 0 -> IF Len(sel) = 0 THEN "usage" ELSE ""
    [] Len(a) = 1 -> ""
    [] OTHER      -> "usage"

\* ----------------------------------------------------------------- Complete
\* the switch on len(args): the usage error, "" when there is none
UsageError(a, sel) ==
  CASE Len(a) = 0 -> IF Len(sel) = 0 THEN "usage" ELSE ""
    [] Len(a) = 1 -> IF Len(sel) # 0 THEN "only a selector (-l) or a resource name is allowed" ELSE ""
    [] OTHER      -> "usage"

\* what b.Do().Infos() can return: <<infos, failed>>
BuilderResults(resourceArg, sel, ns) ==
  {<< <<>>, TRUE >>}
  \cup (IF resourceArg # "" /\ sel = ""
        THEN {<< << obj >>, FALSE >> : obj \in NamedObjects(ns)} ELSE {})
  \cup (IF sel # "" /\ resourceArg = ""
        THEN {<< << obj >>, FALSE >> : obj \in SelectedObjects(ns)} ELSE {})

\* mutant: an empty PodList is let through
InfosError_emptyAllowed(infos, sel, namespaceOverwride) ==
  IF sel = "" /\ Len(infos) # 1 THEN "expected a resource"
  ELSE IF namespaceOverwride /\ infos[1].Kind = "Node"
       THEN "--namespace should not be specified with node target"
  ELSE ""

\* the checks on the fetched infos: the error, "" when there is none
InfosError(infos, sel, namespaceOverwride) ==
  IF sel = "" /\ Len(infos) # 1 THEN "expected a resource"
  ELSE IF sel # "" /\ Len(infos[1].Items) = 0 THEN "no resources found"
  ELSE IF namespaceOverwride /\ infos[1].Kind = "Node"
       THEN "--namespace should not be specified with node target"
  ELSE ""

Complete ==
  /\ pc = "Complete"
  /\ ResourceArg' = IF Len(args) = 1 THEN args[1] ELSE ResourceArg
  /\ IF UsageError(args, Selector) # ""
     THEN /\ Return(Error("UsageError", UsageError(args, Selector)))
          /\ UNCHANGED << o_Object, fetches >>
     ELSE \E namespace \in Namespaces, namespaceOverwride \in BOOLEAN, nsFailed \in BOOLEAN :
            IF nsFailed
            THEN /\ Return(Error("ConfigError", "namespace"))
                 /\ UNCHANGED << o_Object, fetches >>
            ELSE /\ fetches' = fetches + 1
                 /\ \E r \in BuilderResults(ResourceArg', Selector, namespace) :
                      IF r[2]
                      THEN /\ Return(Error("FetchError", ResourceArg'))
                           /\ UNCHANGED o_Object
                      ELSE IF Selector = "" /\ Len(r[1]) # 1
                      THEN /\ Return(Error("ResolutionError", "expected a resource"))
                           /\ UNCHANGED o_Object
                      ELSE /\ o_Object' = r[1][1]
                           /\ IF InfosError(r[1], Selector, namespaceOverwride) # ""
                              THEN Return(Error("ResolutionError",
                                                InfosError(r[1], Selector, namespaceOverwride)))
                              ELSE pc' = "RunEvict" /\ UNCHANGED err
  /\ UNCHANGED << args, Selector, GracePeriodSeconds, DryRun, ctxCanceled, canceledInFlight,
                  selectorSpec, listQueries, pods, opts, discovery, discoveries, client, i,
                  requests, out >>

\* ----------------------------------------------------------------- RunEvict
\* a request put on the wire, with the state of the caller's context then
Sent(call, done) == [call |-> call, ctxDone |-> done]

\* A call under the caller's context is refused before it is sent once that
\* context is done; a call under context.TODO() is sent whatever the caller
\* did.
Refused(c, doneNow) == c = "ctx" /\ doneNow

\* How a call in flight under context c can end, the caller's context being
\* done or not: the server answers, or, under the caller's context once it
\* is done, the call is aborted.
Outcomes(c, doneNow) ==
  {"ok", "failed"} \cup (IF c = "ctx" /\ doneNow THEN {"canceled"} ELSE {})

\* RunEvict up to the first network call: the client configuration, then
\* podsForObject as far as its list query
RunEvict ==
  /\ pc = "RunEvict"
  /\ \E configFailed \in BOOLEAN :
       IF configFailed
       THEN /\ Return(Error("ConfigError", "rest config"))
            /\ UNCHANGED << selectorSpec, listQueries, pods >>
       ELSE IF o_Object.Kind = "PodList"
       THEN /\ pods' = o_Object.Items
            /\ pc' = "NewEvictClient"
            /\ UNCHANGED << selectorSpec, listQueries, err >>
       ELSE IF o_Object.Kind = "Pod"
       THEN /\ pods' = << [Namespace |-> o_Object.Namespace, Name |-> o_Object.Name] >>
            /\ pc' = "NewEvictClient"
            /\ UNCHANGED << selectorSpec, listQueries, err >>
       ELSE /\ selectorSpec' = selectorsForObject(o_Object)
            /\ IF selectorSpec'.err # ""
               THEN /\ Return(Error("ResolutionError", selectorSpec'.err))
                    /\ UNCHANGED << listQueries, pods >>
               ELSE IF Refused("ctx", ctxCanceled)
               THEN /\ Return(Error("canceled", "list pods"))
                    /\ UNCHANGED << listQueries, pods >>
               ELSE /\ listQueries' = Append(listQueries, ListOptionsFor(selectorSpec'))
                    /\ pc' = "List"
                    /\ UNCHANGED << pods, err >>
  /\ UNCHANGED << args, Selector, GracePeriodSeconds, DryRun, ResourceArg, o_Object,
                  ctxCanceled, canceledInFlight, fetches, opts, discovery, discoveries,
                  client, i, requests, out >>

\* api.Pods(namespace).List(ctx, opt) returns
ListReturn ==
  /\ pc = "List"
  /\ LET q == listQueries[Len(listQueries)] IN
     \E outcome \in Outcomes("ctx", ctxCanceled) :
       IF outcome = "ok"
       THEN /\ \E ns \in (IF q.namespace = NamespaceAll THEN Namespaces
                          ELSE {q.namespace}) :
                 \E items \in PodLists(ns) : pods' = items
            /\ pc' = "NewEvictClient"
            /\ UNCHANGED err
       ELSE /\ Return(Error(IF outcome = "canceled" THEN "canceled" ELSE "ClusterQueryError",
                            "list pods"))
            /\ UNCHANGED pods
  /\ UNCHANGED << args, Selector, GracePeriodSeconds, DryRun, ResourceArg, o_Object,
                  ctxCanceled, canceledInFlight, fetches, selectorSpec, listQueries, opts,
                  discovery, discoveries, client, i, requests, out >>

\* the delete options, the verb and NewEvictClient(api)
NewEvictClientStep ==
  /\ pc = "NewEvictClient"
  /\ opts' = DeleteOptionsFor(GracePeriodSeconds, DryRun)
  /\ discoveries' = discoveries + 1
  /\ client' = NewEvictClient(discovery)
  /\ i' = 1
  /\ pc' = "Loop"
  /\ UNCHANGED << args, Selector, GracePeriodSeconds, DryRun, ResourceArg, o_Object,
                  ctxCanceled, canceledInFlight, fetches, selectorSpec, listQueries, pods,
                  discovery, requests, out, err >>

verb == IF DryRun THEN "evicted (dry-run)" ELSE "evicted"

OutLine(pod) == "pod " \o pod.Namespace \o "/" \o pod.Name \o " " \o verb

PodKey(pod) == pod.Namespace \o "/" \o pod.Name

\* mutant: the client is negotiated again for every pod
EvictPodCall_renegotiate ==
  /\ pc = "Loop"
  /\ IF i > Len(pods)
     THEN /\ Return(NoError)
          /\ UNCHANGED << requests, discoveries >>
     ELSE /\ discoveries' = discoveries + 1
          /\ requests' = Append(requests,
                                Sent(EvictPod(NewEvictClient(discovery), "ctx", pods[i], opts),
                                     ctxCanceled))
          /\ pc' = "Evict"
          /\ UNCHANGED err
  /\ UNCHANGED << args, Selector, GracePeriodSeconds, DryRun, ResourceArg, o_Object,
                  ctxCanceled, canceledInFlight, fetches, selectorSpec, listQueries, pods,
                  opts, discovery, client, i, out >>

\* the head of the range loop: the next pod's eviction is sent, or RunEvict returns nil
EvictPodCall ==
  /\ pc = "Loop"
  /\ IF i > Len(pods)
     THEN /\ Return(NoError)
          /\ UNCHANGED requests
     ELSE LET e == EvictPod(client, "ctx", pods[i], opts) IN
          IF Refused(e.context, ctxCanceled)
          THEN /\ Return(Error("canceled", PodKey(pods[i])))
               /\ UNCHANGED requests
          ELSE /\ requests' = Append(requests, Sent(e, ctxCanceled))
               /\ pc' = "Evict"
               /\ UNCHANGED err
  /\ UNCHANGED << args, Selector, GracePeriodSeconds, DryRun, ResourceArg, o_Object,
                  ctxCanceled, canceledInFlight, fetches, selectorSpec, listQueries, pods,
                  opts, discovery, discoveries, client, i, out >>

\* mutant: a failed eviction is skipped and the loop goes on
EvictPodReturn_continue ==
  /\ pc = "Evict"
  /\ LET r == requests[Len(requests)] IN
     \E outcome \in Outcomes(r.call.context, ctxCanceled) :
       /\ out' = IF outcome = "ok" THEN Append(out, OutLine(pods[i])) ELSE out
       /\ i' = i + 1
       /\ pc' = "Loop"
       /\ UNCHANGED err
  /\ UNCHANGED << args, Selector, GracePeriodSeconds, DryRun, ResourceArg, o_Object,
                  ctxCanceled, canceledInFlight, fetches, selectorSpec, listQueries, pods,
                  opts, discovery, discoveries, client, requests >>

\* eviction.EvictPod returns: the error ends the run, success prints the line
EvictPodReturn ==
  /\ pc = "Evict"
  /\ LET r == requests[Len(requests)] IN
     \E outcome \in Outcomes(r.call.context, ctxCanceled) :
       IF outcome = "ok"
       THEN /\ out' = Append(out, OutLine(pods[i]))
            /\ i' = i + 1
            /\ pc' = "Loop"
            /\ UNCHANGED err
       ELSE /\ Return(Error(IF outcome = "canceled" THEN "canceled" ELSE "EvictionError",
                            PodKey(pods[i])))
            /\ UNCHANGED << out, i >>
  /\ UNCHANGED << args, Selector, GracePeriodSeconds, DryRun, ResourceArg, o_Object,
                  ctxCanceled, canceledInFlight, fetches, selectorSpec, listQueries, pods,
                  opts, discovery, discoveries, client, requests >>

\* the caller cancels the context it gave RunEvict
Cancel ==
  /\ pc \in {"RunEvict", "List", "NewEvictClient", "Loop", "Evict"}
  /\ ~ctxCanceled
  /\ ctxCanceled' = TRUE
  /\ canceledInFlight' = (pc = "Evict")
  /\ UNCHANGED << pc, args, Selector, GracePeriodSeconds, DryRun, ResourceArg, o_Object,
                  fetches, selectorSpec, listQueries, pods, opts, discovery, discoveries,
                  client, i, requests, out, err >>

Next ==
  \/ Complete
  \/ RunEvict
  \/ ListReturn
  \/ NewEvictClientStep
  \/ EvictPodCall
  \/ EvictPodReturn
  \/ Cancel

Spec == Init /\ [][Next]_vars


\* ------------------------------------------------- negotiation on its own
\* The run of `kubectl evict nginx` from the point where its one pod is
\* resolved, against every discovery document within the bounds.
InitNegotiate ==
  /\ pc = "NewEvictClient"
  /\ args = << "nginx" >>
  /\ Selector = ""
  /\ GracePeriodSeconds \in GracePeriods
  /\ DryRun = FALSE
  /\ ResourceArg = "nginx"
  /\ o_Object = Object("Pod", "default", "nginx-1", NilLabelSelector, NilMap, <<>>)
  /\ ctxCanceled = FALSE
  /\ canceledInFlight = FALSE
  /\ fetches = 1
  /\ selectorSpec = NoSelectorSpec
  /\ listQueries = <<>>
  /\ pods = << [Namespace |-> "default", Name |-> "nginx-1"] >>
  /\ opts = NilDeleteOptions
  /\ discovery \in DiscoveryResponses
  /\ discoveries = 0
  /\ client = ""
  /\ i = 0
  /\ requests = <<>>
  /\ out = <<>>
  /\ err = NoError

NextNegotiate ==
  \/ NewEvictClientStep
  \/ EvictPodCall
  \/ EvictPodReturn

SpecNegotiate == InitNegotiate /\ [][NextNegotiate]_vars

\* ==================================================================== claims
ClientGroupVersion(c) ==
  IF c = "ClientV1" THEN PolicyV1GroupVersion ELSE PolicyV1beta1GroupVersion

\* C1: the eviction requests sent are a prefix of the resolved pods, in
\* resolver order and one per pod; an "evicted" line is written for each pod
\* whose eviction succeeded and for no other; the run ends with no error only
\* after every pod was requested and reported, and a failed eviction is the
\* run's error, names the pod it failed on, and is the last request sent.
C1_ShortCircuit ==
  /\ Len(requests) <= Len(pods)
  /\ \A j \in 1..Len(requests) :
       /\ requests[j].call.Name = pods[j].Name
       /\ requests[j].call.Namespace = pods[j].Namespace
  /\ Len(out) <= Len(requests)
  /\ Len(requests) <= Len(out) + 1
  /\ \A j \in 1..Len(out) : out[j] = OutLine(pods[j])
  /\ (pc = "done" /\ err = NoError /\ client # "")
       => Len(requests) = Len(pods) /\ Len(out) = Len(pods)
  /\ (pc = "done" /\ Len(out) < Len(requests))
       => /\ err.type \in {"EvictionError", "canceled"}
          /\ err.subject = PodKey(pods[Len(requests)])
  /\ (pc = "done" /\ err.type = "EvictionError") => Len(out) = Len(requests) - 1

C1_Witness ==
  /\ pc = "done"
  /\ err.type = "EvictionError"
  /\ Len(pods) = 3
  /\ Len(requests) = 2
  /\ Len(out) = 1

\* C2: with --dry-run every eviction request sent carries delete options
\* whose dry-run mode is "All".
C2_DryRunTransmitted ==
  DryRun => \A j \in 1..Len(requests) :
              /\ ~requests[j].call.DeleteOptions.isNil
              /\ requests[j].call.DeleteOptions.DryRun = << DryRunAll >>

\* C3: a negative grace period puts no grace period into the delete options
\* sent, and a grace period g >= 0 is sent as exactly g.
C3_GracePeriodTransmitted ==
  \A j \in 1..Len(requests) :
    LET d == requests[j].call.DeleteOptions IN
    /\ GracePeriodSeconds < 0 => (d.isNil \/ ~d.hasGrace)
    /\ GracePeriodSeconds >= 0 =>
         (~d.isNil /\ d.hasGrace /\ d.GracePeriodSeconds = GracePeriodSeconds)

\* C4: once negotiated, the client is the stable one exactly when the
\* discovery answer did not fail and holds an entry pods/eviction of kind
\* Eviction with non-empty group and version equal to policy/v1; otherwise it
\* is the deprecated one, and the run goes on: the eviction request it sends
\* is of the chosen version.
StableAdvertised(resp) ==
  /\ ~resp.err
  /\ \E k \in 1..Len(resp.APIResources) :
       LET r == resp.APIResources[k] IN
       /\ r.Name = "pods/eviction"
       /\ r.Kind = "Eviction"
       /\ r.Group # "" /\ r.Version # ""
       /\ r.Group = "policy" /\ r.Version = "v1"

C5_NegotiatedOnce ==
  /\ discoveries <= 1
  /\ \A j \in 1..Len(requests) : requests[j].call.apiVersion = ClientGroupVersion(client)
  /\ (pc = "done" /\ err.type = "EvictionError") => discoveries = 1

C5_Witness ==
  /\ pc = "done"
  /\ err.type = "EvictionError"
  /\ Len(requests) = 3
  /\ discoveries = 1

\* C6: once the caller's context was canceled while an eviction request was
\* in flight, the run does not go on to a later pod: no eviction request is
\* put on the wire after the cancellation.
C6_CancelStopsRun ==
  canceledInFlight => \A j \in 1..Len(requests) : ~requests[j].ctxDone

\* C7: whenever selectorsForObject returns a SelectorSpec, exactly one of its
\* label selector and field selector is set.  For a node it is the field
\* selector spec.nodeName = the node's name, over all namespaces; for every
\* other supported kind it is a label selector over the object's namespace.
\* The list query sent carries that namespace and the string of that one
\* selector, and nothing in the other selector's place.
Derived == Len(listQueries) >= 1

C7_OneSelector ==
  /\ selectorSpec.err # "" => Len(listQueries) = 0
  /\ Len(listQueries) <= 1
  /\ Derived =>
       LET q == listQueries[1] IN
       /\ o_Object.Kind \in ControllerKinds
       /\ selectorSpec.labelsel.isNil # selectorSpec.fieldsel.isNil
       /\ q.namespace = selectorSpec.namespace
       /\ IF o_Object.Kind = "Node"
          THEN /\ selectorSpec.labelsel.isNil
               /\ selectorSpec.fieldsel.field = "spec.nodeName"
               /\ selectorSpec.fieldsel.value = o_Object.Name
               /\ selectorSpec.namespace = ""
               /\ q.LabelSelector = ""
               /\ q.FieldSelector = "spec.nodeName=" \o o_Object.Name
          ELSE /\ selectorSpec.fieldsel.isNil
               /\ selectorSpec.namespace = o_Object.Namespace
               /\ selectorSpec.namespace \in Namespaces
               /\ q.FieldSelector = ""
               /\ q.LabelSelector = SelectorString(selectorSpec.labelsel)

C7_Witness ==
  /\ Derived
  /\ o_Object.Kind = "Node"
  /\ pc = "List"

\* C8: a service whose selector map is nil or empty never gets a list query,
\* a pod, a discovery query or an eviction request, and once RunEvict has
\* run, the run is over with the no-selector error (or with the failure of
\* the client configuration, which comes before resolution).
ServiceWithoutSelector ==
  /\ o_Object.Kind = "Service"
  /\ (o_Object.SelectorMap.isNil \/ Len(o_Object.SelectorMap.m) = 0)

C8_ServiceWithoutSelector ==
  ServiceWithoutSelector =>
    /\ listQueries = <<>>
    /\ pods = <<>>
    /\ discoveries = 0
    /\ requests = <<>>
    /\ out = <<>>
    /\ pc \in {"RunEvict", "done"}
    /\ pc = "done" =>
         \/ err = Error("ResolutionError", "Service is defined without a selector")
         \/ err = Error("ConfigError", "rest config")

C8_Witness ==
  /\ ServiceWithoutSelector
  /\ o_Object.SelectorMap.isNil
  /\ pc = "done"
  /\ err = Error("ResolutionError", "Service is defined without a selector")

\* C9: Complete accepts the invocation only with exactly one of {one
\* positional argument, a non-empty selector}; with neither, with both, or
\* with more than one positional argument the run ends in a usage error, and
\* a run ended in a usage error has made no fetch, no list query, no
\* discovery query and no eviction request.
Misused ==
  \/ Len(args) = 0 /\ Selector = ""
  \/ Len(args) >= 1 /\ Selector # ""
  \/ Len(args) > 1

C9_Usage ==
  pc # "Complete" =>
    /\ err.type # "UsageError" => ((Len(args) = 1) # (Selector # ""))
    /\ Misused => (pc = "done" /\ err.type = "UsageError")
    /\ err.type = "UsageError" =>
         /\ fetches = 0
         /\ listQueries = <<>>
         /\ discoveries = 0
         /\ requests = <<>>

C9_Witness ==
  /\ pc = "done"
  /\ err.type = "UsageError"
  /\ Len(args) = 1
  /\ Selector # ""

\* C10 as written: a finished run whose label-selector or controller-kind
\* target resolved to no pod has ended with an error.
ResolvedEmpty ==
  \/ o_Object.Kind = "PodList" /\ Len(o_Object.Items) = 0
  \/ o_Object.Kind \in ControllerKinds /\ Derived /\ client # "" /\ Len(pods) = 0

C10_EmptyIsAnError ==
  (pc = "done" /\ ResolvedEmpty) => err # NoError

\* C10 amended: an empty label-selector fetch ends the run in Complete with
\* the no-resources error, before any discovery or eviction; an empty list
\* for a controller-kind target is no error: the run ends with no error,
\* no eviction request and no output.
C10_EmptySelectorIsAnError ==
  /\ (o_Object.Kind = "PodList" /\ Len(o_Object.Items) = 0) =>
       /\ pc = "done"
       /\ err = Error("ResolutionError", "no resources found")
       /\ discoveries = 0
       /\ requests = <<>>
  /\ (pc = "done" /\ o_Object.Kind \in ControllerKinds /\ Derived /\ client # ""
        /\ Len(pods) = 0) =>
       /\ err = NoError
       /\ requests = <<>>
       /\ out = <<>>

C10_Witness ==
  /\ pc = "done"
  /\ o_Object.Kind = "PodList"
  /\ Len(o_Object.Items) = 0
  /\ Selector # ""

====
